---- MODULE Spec2Model ----
(***************************************************************************)
(* The station service of server.py: four RPC handlers (StationSchema,     *)
(* StationName, RecordTemps, StationMax) running on a pool of worker       *)
(* threads against the table weather.stations, which is kept on three      *)
(* replicas (replication_factor 3).  Observations are written at           *)
(* consistency ONE, the maximum is read at THREE and, when that read is    *)
(* refused for lack of replicas, once more at ONE.                         *)
(*                                                                         *)
(* A handler blocks in session.execute; each action below is one handler   *)
(* from its entry up to its reply or, for StationMax, up to the store call *)
(* of its except clause.  The three replicas are interchangeable, so the   *)
(* cluster is the bag of their states.  Start is the constructor run       *)
(* again; RaceSpec takes the insert of RecordTemps apart so that inserts   *)
(* of several threads overlap.                                             *)
(***************************************************************************)
EXTENDS Integers, Sequences, FiniteSets, Bags, TLC

\* ------------------------------------------------------------------ bounds
\* Number of insert statements the model lets reach the store.
MaxWrites == 2
\* Number of request threads the model runs side by side.
NumWorkers == 2

\* ------------------------------------------------------- program constants
RF == 3            \* 'replication_factor': 3
CL_ONE == 1        \* ConsistencyLevel.ONE: one replica must answer
CL_THREE == 3      \* ConsistencyLevel.THREE: three replicas must answer

\* The level bound to each prepared statement.
\* (an insert that waits for a majority of the replicas)
InsertLevelMajority == CL_ONE + 1
InsertLevel == CL_ONE        \* insert_temp.consistency_level
\* (a strong read that is content with a majority of the replicas)
StrongLevelMajority == CL_THREE - 1
StrongLevel == CL_THREE      \* select_max_strong.consistency_level
AvailableLevel == CL_ONE     \* select_max_available.consistency_level

\* Station ids: the first is in the seeded reference list, the second is not.
SeededStation == "USW00014837"
UnknownStation == "ZZ000000000"
Stations == {SeededStation, UnknownStation}
SeededName == "MADISON DANE CO RGNL AP"
Dates == {1, 2}
\* (tmin, tmax) pairs a request may carry; a stored tmax of -1 is among them.
Records == {<<-5, 2>>, <<-9, -1>>}
\* Texts of the exceptions of the storage layer other than Unavailable and
\* NoHostAvailable.  The driver builds them from the error's name, code and
\* message: they are never empty and are none of the service's own strings.
WriteExcMsgs == {"WriteTimeout", "WriteFailure"}
ReadExcMsgs == {"ReadTimeout", "ReadFailure"}
SchemaText == "CREATE TABLE weather.stations"

\* A nullable column value: <<>> is null, <<v>> is the value v.
Null == <<>>
Some(v) == <<v>>

\* The (id, date) keys requests write: two dates of the seeded station, one of
\* the other.
Keys == {k \in Stations \X Dates : k[1] = SeededStation \/ k[2] = 1}

VARIABLES
  reps,     \* the bag of replica states [up, tbl]: up is "running and
            \* reachable", tbl the rows of weather.stations the replica holds
  names,    \* names[s]: the static column name of partition s
  latest,   \* latest[k]: the last insert that reached a replica for key k
  pending,  \* pending[s]: the threads inside StationMax(s) that have store
            \* calls behind them and one more ahead; each is the sequence
            \* of its calls so far
  sent,     \* the reply sent last, with its request and its store calls
  writing   \* the inserts in flight: rows stamped by the session that no
            \* replica has been handed yet

vars == <<reps, names, latest, pending, sent, writing>>

\* ------------------------------------------------------------------- bags
\* A choice of copies from bag B: how many copies of each element.
Choices(B) == {t \in [DOMAIN B -> 0..RF] : \A e \in DOMAIN B : t[e] <= B[e]}

\* The sum of f[e] over e in S, for f[e] in 0..n.
SumOf(f, S, n) == Cardinality({p \in S \X (1..n) : p[2] <= f[p[1]]})

Size(B) == SumOf(B, DOMAIN B, RF)

Chosen(t) == {e \in DOMAIN t : t[e] > 0}

\* Bag B after each chosen copy e has become f[e].
Change(B, t, f) ==
  LET D == {e \in DOMAIN B : B[e] - t[e] > 0} \cup {f[e] : e \in Chosen(t)}
  IN  [x \in D |->
         (IF x \in DOMAIN B THEN B[x] - t[x] ELSE 0)
         + SumOf(t, {e \in Chosen(t) : f[e] = x}, RF)]

\* One copy of element e.
One(B, e) == [x \in DOMAIN B |-> IF x = e THEN 1 ELSE 0]

\* The live replicas.
Live == [e \in {x \in DOMAIN reps : x.up} |-> reps[e]]

\* ---------------------------------------------------------------- the table
\* PRIMARY KEY (id, date): a row is one observation, stamped with the write
\* timestamp of the statement that wrote its record.  Timestamps are only
\* ever compared between writes of one key, so ts is the rank of the write
\* among the writes of its key.
MkRow(s, d, ts, tmin, tmax) ==
  [id |-> s, date |-> d, ts |-> ts, tmin |-> tmin, tmax |-> tmax]

SameKey(a, b) == a.id = b.id /\ a.date = b.date

\* (a table whose rows are not keyed by (id, date): every insert adds a row)
UpsertAppends(tbl, row) == tbl \cup {row}

\* (a replica that keeps the row that arrives last, whatever its timestamp)
UpsertArrival(tbl, row) == {x \in tbl : ~SameKey(x, row)} \cup {row}

\* (a record that accumulates: an insert adds to the tmax stored for the key)
UpsertAdds(tbl, row) ==
  LET old == {x \in tbl : SameKey(x, row)}
  IN  IF \E x \in old : x.ts >= row.ts THEN tbl
      ELSE (tbl \ old)
           \cup {IF old = {} THEN row
                 ELSE [row EXCEPT !.tmax = @ + (CHOOSE x \in old : TRUE).tmax]}

\* A replica applies an insert as an upsert on the primary key; of two
\* writes of one key the one with the later timestamp stays.
Upsert(tbl, row) ==
  IF \E x \in tbl : SameKey(x, row) /\ x.ts >= row.ts
  THEN tbl
  ELSE {x \in tbl : ~SameKey(x, row)} \cup {row}

\* The coordinator reconciles the rows the replicas return: per key the
\* row with the latest timestamp.
Reconcile(rows) ==
  {x \in rows : \A y \in rows : SameKey(x, y) => y.ts <= x.ts}

\* The rows a read sees that is answered by the chosen replicas.
ReadRows(t) == Reconcile(UNION {e.tbl : e \in Chosen(t)})

MaxOf(S) == CHOOSE m \in S : \A x \in S : x <= m

\* SELECT MAX(record.tmax) as max_temp FROM weather.stations WHERE id = ?
\* over the given rows: null when the partition has no record.
SelectMax(rows, s) ==
  LET v == {x.tmax : x \in {y \in rows : y.id = s}}
  IN  IF v = {} THEN Null ELSE Some(MaxOf(v))

\* ------------------------------------------------------- the store's answers
\* What session.execute can do with a statement: return ("ok"), raise
\* Unavailable or NoHostAvailable ("unavailable"), or raise another exception
\* ("error", with its text).

\* insert_temp, consistency ONE.  The coordinator refuses the write when fewer
\* replicas than the level asks for are alive; otherwise it sends the mutation
\* to the live replicas and acknowledges once enough of them have applied it.
\* A write that ends in another exception (a timeout) may have reached any of
\* the live replicas.
InsertOutcomes ==
  IF Size(Live) < InsertLevel
  THEN {[out |-> "unavailable", msg |-> "", val |-> Null,
         applied |-> [e \in DOMAIN Live |-> 0]]}
  ELSE {[out |-> "ok", msg |-> "", val |-> Null, applied |-> t] :
           t \in {c \in Choices(Live) : Size(c) >= InsertLevel}}
       \cup {[out |-> "error", msg |-> m, val |-> Null, applied |-> t] :
           m \in WriteExcMsgs, t \in Choices(Live)}

\* select_max_strong / select_max_available at consistency level cl: refused
\* when fewer than cl replicas are alive, otherwise answered from cl live
\* replicas, or failed with another exception.
SelectMaxOutcomes(cl, s) ==
  IF Size(Live) < cl
  THEN {[out |-> "unavailable", msg |-> "", val |-> Null]}
       \cup {[out |-> "error", msg |-> m, val |-> Null] :
               m \in {x \in ReadExcMsgs : Size(Live) > 0}}
  ELSE {[out |-> "ok", msg |-> "", val |-> SelectMax(ReadRows(t), s)] :
           t \in {c \in Choices(Live) : Size(c) = cl}}
       \cup {[out |-> "error", msg |-> m, val |-> Null] : m \in ReadExcMsgs}

\* SELECT name FROM weather.stations WHERE id = %s, as result.one() sees it
\* on a replica holding the rows tbl: the first row of the partition, carrying
\* the static column (null when the partition was made by an observation
\* only), or no row.  <<>> is "no row", <<n>> a row whose name is n.
SelectNameOne(tbl, s) ==
  IF names[s] # Null \/ \E x \in tbl : x.id = s
  THEN <<names[s]>>
  ELSE <<>>

\* The same statement as session.execute answers it (default consistency:
\* one live replica).
SelectNameOutcomes(s) ==
  IF Size(Live) = 0
  THEN {[out |-> "unavailable", msg |-> "", val |-> Null, one |-> <<>>]}
  ELSE {[out |-> "ok", msg |-> "", val |-> Null, one |-> SelectNameOne(e.tbl, s)] :
           e \in DOMAIN Live}
       \cup {[out |-> "error", msg |-> m, val |-> Null, one |-> <<>>] :
               m \in ReadExcMsgs}

\* DESCRIBE TABLE weather.stations
DescribeOutcomes ==
  IF Size(Live) = 0
  THEN {[out |-> "unavailable", msg |-> "", val |-> Null, text |-> ""]}
  ELSE {[out |-> "ok", msg |-> "", val |-> Null, text |-> SchemaText]}
       \cup {[out |-> "error", msg |-> m, val |-> Null, text |-> ""] :
               m \in ReadExcMsgs}

\* ------------------------------------------------------------------ replies
\* A reply message; the fields a reply type lacks stay at their defaults.
MkReply(tmax, name, schema, error) ==
  [tmax |-> tmax, name |-> name, schema |-> schema, error |-> error]

NoReply == MkReply(0, "", "", "")

\* (a handler that swallows the exceptions it has no clause for)
RecordTempsReplySwallows(o) ==
  IF o.out = "unavailable" THEN MkReply(0, "", "", "unavailable")
  ELSE MkReply(0, "", "", "")

\* RecordTemps: the try/except around the insert.
RecordTempsReply(o) ==
  IF o.out = "ok" THEN MkReply(0, "", "", "")
  ELSE IF o.out = "unavailable" THEN MkReply(0, "", "", "unavailable")
  ELSE MkReply(0, "", "", o.msg)

\* StationMax, the strong read: TRUE when the handler goes on to the read at
\* consistency ONE (the except clause for Unavailable, NoHostAvailable).
\* (a handler that falls back on every exception of the strong read)
StrongFallsBackOnAnyError(o) == o.out # "ok"

StrongFallsBack(o) == o.out = "unavailable"

\* StationMax, the read at consistency ONE: TRUE when the handler issues the
\* read again.  Every branch after it returns.
\* (a handler that keeps retrying the fallback while it is refused)
FallbackRetriesWhileRefused(o) == o.out = "unavailable"

FallbackRetries(o) == FALSE

\* (a handler that reports a null aggregate as tmax 0)
StrongReplyZero(o) ==
  IF o.out = "ok"
  THEN MkReply(IF o.val # Null THEN o.val[1] ELSE 0, "", "", "")
  ELSE MkReply(-1, "", "", o.msg)

\* (a handler that reports a null aggregate as the sentinel alone)
StrongReplySilent(o) ==
  IF o.out = "ok"
  THEN MkReply(IF o.val # Null THEN o.val[1] ELSE -1, "", "", "")
  ELSE MkReply(-1, "", "", o.msg)

\* StationMax, the reply after the strong read when there is no fallback.
StrongReply(o) ==
  IF o.out = "ok"
  THEN IF o.val # Null
       THEN MkReply(o.val[1], "", "", "")
       ELSE MkReply(-1, "", "", "No data found")
  ELSE MkReply(-1, "", "", o.msg)

\* (a handler that does not flag the degraded answer)
WeakReplyUnflagged(o) ==
  IF o.out = "ok"
  THEN IF o.val # Null
       THEN MkReply(o.val[1], "", "", "")
       ELSE MkReply(-1, "", "", "No data found")
  ELSE IF o.out = "unavailable"
       THEN MkReply(-1, "", "", "unavailable")
       ELSE MkReply(-1, "", "", o.msg)

\* StationMax, the reply after the read at consistency ONE.
WeakReply(o) ==
  IF o.out = "ok"
  THEN IF o.val # Null
       THEN MkReply(o.val[1], "", "", "fallback_to_available")
       ELSE MkReply(-1, "", "", "No data found")
  ELSE IF o.out = "unavailable"
       THEN MkReply(-1, "", "", "unavailable")
       ELSE MkReply(-1, "", "", o.msg)

\* (a handler without the else branch)
StationNameReplyNoElse(one) ==
  MkReply(0, IF one = <<>> \/ one[1] = Null THEN "" ELSE one[1][1], "", "")

\* StationName: the reply from result.one(); a null name is sent as the
\* field's default, the empty string.
StationNameReply(one) ==
  IF one # <<>>
  THEN MkReply(0, IF one[1] = Null THEN "" ELSE one[1][1], "", "")
  ELSE MkReply(0, "", "", "Station not found")

\* StationSchema
StationSchemaReply(text) == MkReply(0, "", text, "")

\* ------------------------------------------------------------------ workers
\* One session.execute of a handler: the statement, how it ended, and the
\* aggregate it returned or the text of its exception.
Call(stmt, o) == [stmt |-> stmt, out |-> o.out, val |-> o.val, msg |-> o.msg]

\* A request message; the fields a request type lacks stay at their defaults.
Req(op, s, d, tmin, tmax) ==
  [op |-> op, station |-> s, date |-> d, tmin |-> tmin, tmax |-> tmax]

\* A handler that returned reply r for request q after the store calls cs.
Sent(q, cs, r) ==
  [req |-> q, calls |-> cs, raised |-> FALSE, reply |-> r]

\* A handler that ended in the exception of its store call: the caller gets
\* no reply message.
Raised(q, cs) ==
  [req |-> q, calls |-> cs, raised |-> TRUE, reply |-> NoReply]

\* No reply is on its way to a caller.
NoneSent == Sent(Req("", "", 0, 0, 0), <<>>, NoReply)

\* Threads of the pool that are inside no handler.
IdleWorkers ==
  NumWorkers - SumOf([s \in Stations |-> Len(pending[s])], Stations, NumWorkers)
             - Cardinality(writing)

NoWrite == [ts |-> 0, tmin |-> 0, tmax |-> 0]

\* Insert statements that have reached a replica so far.
Writes == SumOf([k \in Keys |-> latest[k].ts], Keys, MaxWrites)

\* The static column after the reference list is loaded.
SeededNames ==
  [s \in Stations |-> IF s = SeededStation THEN Some(SeededName) ELSE Null]

\* The state after StationService.__init__: the keyspace is new, the
\* reference list is loaded, no observation is stored.
Init ==
  /\ reps = [e \in {[up |-> TRUE, tbl |-> {}]} |-> RF]
  /\ names = SeededNames
  /\ latest = [k \in Keys |-> NoWrite]
  /\ pending = [s \in Stations |-> <<>>]
  /\ sent = NoneSent
  /\ writing = {}

\* The service is started again: StationService.__init__ connects (a node
\* must be reachable), drops the keyspace weather if it exists, creates it and
\* the table anew and loads the reference list.  The threads of the earlier
\* process are gone; a replica that is down drops its rows with the schema
\* change when it comes back, so it never serves them again.
Start ==
  /\ sent = NoneSent
  /\ \A s \in Stations : pending[s] = <<>>
  /\ writing = {}
  /\ Size(Live) >= 1
  /\ reps' = Change(reps, reps, [e \in DOMAIN reps |-> [e EXCEPT !.tbl = {}]])
  /\ names' = SeededNames
  /\ latest' = [k \in Keys |-> NoWrite]
  /\ UNCHANGED <<pending, sent, writing>>

\* ----------------------------------------------------------------- handlers
\* (an insert keyed by the station alone: it replaces the partition)
ApplyInsertPartition(e, row) ==
  [e EXCEPT !.tbl = {x \in @ : x.id # row.id} \cup {row}]

\* A replica applies the mutation.
ApplyInsert(e, row) == [e EXCEPT !.tbl = Upsert(@, row)]

\* The write timestamp of the next statement for key k (the session stamps
\* its statements with increasing timestamps).
NextTs(k) == latest[k].ts + 1

\* RecordTemps(station s, date d, tmin, tmax): one insert.
RecordTemps(s, d, rec) ==
  /\ sent = NoneSent
  /\ IdleWorkers > 0
  /\ Writes < MaxWrites
  /\ \E o \in InsertOutcomes :
       LET row == MkRow(s, d, NextTs(<<s, d>>), rec[1], rec[2])
           Apply == [e \in DOMAIN reps |-> ApplyInsert(e, row)]
           r == RecordTempsReply(o)
       IN  /\ reps' = Change(reps, [e \in DOMAIN reps |->
                                      IF e \in DOMAIN o.applied
                                      THEN o.applied[e] ELSE 0], Apply)
           /\ latest' = IF Size(o.applied) = 0 THEN latest
                        ELSE [latest EXCEPT ![<<s, d>>] =
                                [ts |-> row.ts, tmin |-> rec[1], tmax |-> rec[2]]]
           /\ sent' = Sent(Req("RecordTemps", s, d, rec[1], rec[2]),
                           <<Call("insert_temp", o)>>, r)
  /\ UNCHANGED <<names, pending, writing>>

\* The handlers run on the threads of the pool without a lock, and an insert
\* takes time: the two actions below are RecordTemps taken apart, so that
\* inserts of several threads overlap.

\* The timestamp of the next statement for key k when inserts are in flight:
\* later than every timestamp the session has given out for the key.
StampTs(k) ==
  1 + MaxOf({latest[k].ts}
            \cup {w.ts : w \in {x \in writing : x.id = k[1] /\ x.date = k[2]}})

\* Inserts the session has stamped so far.
Stamped == SumOf([k \in Keys |-> StampTs(k) - 1], Keys, MaxWrites)

\* RecordTemps(station s, date d, tmin, tmax) calls session.execute: the
\* session stamps the statement and sends it.
RecordTempsBegin(s, d, rec) ==
  /\ sent = NoneSent
  /\ IdleWorkers > 0
  /\ Stamped < MaxWrites
  /\ writing' = writing
                 \cup {MkRow(s, d, StampTs(<<s, d>>), rec[1], rec[2])}
  /\ UNCHANGED <<reps, names, latest, pending, sent>>

\* The insert of row reaches the replicas and session.execute returns or
\* raises: the handler replies.  An insert stamped earlier may arrive after
\* one stamped later.
RecordTempsEnd(row) ==
  /\ sent = NoneSent
  /\ row \in writing
  /\ \E o \in InsertOutcomes :
       LET k == <<row.id, row.date>>
           Apply == [e \in DOMAIN reps |-> ApplyInsert(e, row)]
       IN  /\ reps' = Change(reps, [e \in DOMAIN reps |->
                                      IF e \in DOMAIN o.applied
                                      THEN o.applied[e] ELSE 0], Apply)
           /\ latest' = IF Size(o.applied) = 0 \/ row.ts < latest[k].ts
                        THEN latest
                        ELSE [latest EXCEPT ![k] =
                                [ts |-> row.ts, tmin |-> row.tmin,
                                 tmax |-> row.tmax]]
           /\ sent' = Sent(Req("RecordTemps", row.id, row.date,
                               row.tmin, row.tmax),
                           <<Call("insert_temp", o)>>, RecordTempsReply(o))
  /\ writing' = writing \ {row}
  /\ UNCHANGED <<names, pending>>

\* StationMax(station s), up to the reply or to the fallback.
StationMax(s) ==
  /\ sent = NoneSent
  /\ IdleWorkers > 0
  /\ \E o \in SelectMaxOutcomes(StrongLevel, s) :
       IF StrongFallsBack(o)
       THEN /\ pending' = [pending EXCEPT ![s] =
                              Append(@, <<Call("select_max_strong", o)>>)]
            /\ UNCHANGED sent
       ELSE /\ sent' = Sent(Req("StationMax", s, 0, 0, 0),
                            <<Call("select_max_strong", o)>>,
                            StrongReply(o))
            /\ UNCHANGED pending
  /\ UNCHANGED <<reps, names, latest, writing>>

\* StationMax(station s), the except clause: the read at consistency ONE.
StationMaxFallback(s) ==
  /\ sent = NoneSent
  /\ pending[s] # <<>>
  /\ \E o \in SelectMaxOutcomes(AvailableLevel, s) :
       LET cs == Append(Head(pending[s]), Call("select_max_available", o))
       IN  IF FallbackRetries(o)
           THEN /\ pending' = [pending EXCEPT ![s] = Append(Tail(@), cs)]
                /\ UNCHANGED sent
           ELSE /\ pending' = [pending EXCEPT ![s] = Tail(@)]
                /\ sent' = Sent(Req("StationMax", s, 0, 0, 0), cs, WeakReply(o))
  /\ UNCHANGED <<reps, names, latest, writing>>

\* StationName(station s).
StationName(s) ==
  /\ sent = NoneSent
  /\ IdleWorkers > 0
  /\ \E o \in SelectNameOutcomes(s) :
       sent' = IF o.out = "ok"
               THEN Sent(Req("StationName", s, 0, 0, 0),
                         <<Call("select_name", o)>>, StationNameReply(o.one))
               ELSE Raised(Req("StationName", s, 0, 0, 0),
                           <<Call("select_name", o)>>)
  /\ UNCHANGED <<reps, names, latest, pending, writing>>

\* StationSchema().
StationSchema ==
  /\ sent = NoneSent
  /\ IdleWorkers > 0
  /\ \E o \in DescribeOutcomes :
       sent' = IF o.out = "ok"
               THEN Sent(Req("StationSchema", "", 0, 0, 0),
                         <<Call("describe", o)>>, StationSchemaReply(o.text))
               ELSE Raised(Req("StationSchema", "", 0, 0, 0),
                           <<Call("describe", o)>>)
  /\ UNCHANGED <<reps, names, latest, pending, writing>>

\* ------------------------------------------------------------- the replicas
Down(e) == [e EXCEPT !.up = FALSE]
Up(e) == [e EXCEPT !.up = TRUE]

\* A replica stops or becomes unreachable; it keeps its rows.
Fail ==
  /\ sent = NoneSent
  /\ \E e \in DOMAIN reps :
       /\ e.up
       /\ reps' = Change(reps, One(reps, e), [x \in DOMAIN reps |-> Down(x)])
  /\ UNCHANGED <<names, latest, pending, sent, writing>>

Recover ==
  /\ sent = NoneSent
  /\ \E e \in DOMAIN reps :
       /\ ~e.up
       /\ reps' = Change(reps, One(reps, e), [x \in DOMAIN reps |-> Up(x)])
  /\ UNCHANGED <<names, latest, pending, sent, writing>>

\* A mutation a live replica missed reaches it later from a replica that
\* has it (hinted handoff, read repair).
Repair ==
  /\ sent = NoneSent
  /\ \E src \in DOMAIN Live, dst \in DOMAIN Live :
       \E row \in src.tbl :
         LET Apply == [e \in DOMAIN reps |-> ApplyInsert(e, row)]
         IN  /\ Apply[dst] # dst
             /\ reps' = Change(reps, One(reps, dst), Apply)
  /\ UNCHANGED <<names, latest, pending, sent, writing>>

\* The reply reaches its caller.
Deliver ==
  /\ sent # NoneSent
  /\ sent' = NoneSent
  /\ UNCHANGED <<reps, names, latest, pending, writing>>

Next ==
  \/ Start
  \/ \E k \in Keys, rec \in Records : RecordTemps(k[1], k[2], rec)
  \/ \E s \in Stations : StationMax(s)
  \/ \E s \in Stations : StationMaxFallback(s)
  \/ \E s \in Stations : StationName(s)
  \/ StationSchema
  \/ Fail
  \/ Recover
  \/ Repair
  \/ Deliver

Spec == Init /\ [][Next]_vars

\* The service under its scheduling: a reply that was sent reaches its caller,
\* and a session.execute a handler is blocked in returns or raises, however
\* many other requests are served in between.
LiveSpec ==
  /\ Spec
  /\ WF_vars(Deliver)
  /\ \A s \in Stations : SF_vars(StationMaxFallback(s))

\* The service with overlapping inserts.
RaceNext ==
  \/ \E k \in Keys, rec \in Records : RecordTempsBegin(k[1], k[2], rec)
  \/ \E row \in writing : RecordTempsEnd(row)
  \/ Fail
  \/ Recover
  \/ Repair
  \/ Deliver

RaceSpec == Init /\ [][RaceNext]_vars

\* ================================================================ properties
\* A reply of handler op is on its way to the caller.  No step is taken
\* between a reply and its delivery, so the store is as the handler left it.
IsReply(op) == sent.req.op = op /\ ~sent.raised

\* All rows of the table, on live and on stopped replicas.
AllRows == UNION {e.tbl : e \in DOMAIN reps}

\* The keys of station s that hold an observation.
Written(s) == {k \in Keys : k[1] = s /\ latest[k].ts > 0}

\* The tmax values of the current observations of station s.
CurrentTmax(s) == {latest[k].tmax : k \in Written(s)}

\* The row the last insert of key k left.
LatestRow(k) == MkRow(k[1], k[2], latest[k].ts, latest[k].tmin, latest[k].tmax)

\* C1: an acknowledged RecordTemps is the current observation of its key and
\* is held by a replica; a current observation stays on some replica while
\* replicas stop and come back; and a StationMax reply with an empty error
\* carries the maximum tmax of the current observations of the station (so it
\* is at least the tmax of every acknowledged write that was not overwritten).
C1_StrongReadReflectsAckedWrites ==
  /\ (IsReply("RecordTemps") /\ sent.reply.error = "") =>
       LET k == <<sent.req.station, sent.req.date>>
       IN  /\ latest[k].ts > 0
           /\ latest[k].tmin = sent.req.tmin
           /\ latest[k].tmax = sent.req.tmax
  /\ \A k \in Keys : latest[k].ts > 0 => LatestRow(k) \in AllRows
  /\ (IsReply("StationMax") /\ sent.reply.error = "") =>
       /\ CurrentTmax(sent.req.station) # {}
       /\ sent.reply.tmax = MaxOf(CurrentTmax(sent.req.station))

\* C1 witness: a clean StationMax reply of 2 over two dates (tmax 2 and -1)
\* although some replica holds no row at all.
C1_Witness ==
  /\ IsReply("StationMax") /\ sent.reply.error = "" /\ sent.reply.tmax = 2
  /\ CurrentTmax(sent.req.station) = {2, -1}
  /\ \E e \in DOMAIN reps : e.tbl = {}

\* C2: after a strong read refused for unavailability, a weak read that
\* returns a non-null maximum m gives the reply (m, "fallback_to_available"),
\* m being the maximum held by a live replica; a weak read refused as well
\* gives (-1, "unavailable").
C2_FallbackFlag ==
  (IsReply("StationMax") /\ Len(sent.calls) = 2
     /\ sent.calls[1].out = "unavailable") =>
    /\ (sent.calls[2].out = "ok" /\ sent.calls[2].val # Null) =>
         /\ sent.reply = MkReply(sent.calls[2].val[1], "", "", "fallback_to_available")
         /\ \E e \in DOMAIN Live :
              SelectMax(e.tbl, sent.req.station) = sent.calls[2].val
    /\ sent.calls[2].out = "unavailable" =>
         sent.reply = MkReply(-1, "", "", "unavailable")

\* C2 witness: a degraded reply whose value is stale (the current maximum of
\* the station is 2, the replica that answered still has -1).
C2_Witness ==
  /\ IsReply("StationMax")
  /\ sent.reply = MkReply(-1, "", "", "fallback_to_available")
  /\ sent.calls[1].out = "unavailable"
  /\ 2 \in CurrentTmax(sent.req.station)

\* C3: a StationMax whose strong read succeeded or failed with anything but
\* unavailability made no second store call, and in the failure case replies
\* (-1, the exception's text); a thread waits for the weak read only after a
\* strong read refused for unavailability.
C3_FallbackOnlyOnUnavailable ==
  /\ IsReply("StationMax") =>
       /\ sent.calls[1].stmt = "select_max_strong"
       /\ sent.calls[1].out # "unavailable" => Len(sent.calls) = 1
       /\ sent.calls[1].out = "error" =>
            sent.reply = MkReply(-1, "", "", sent.calls[1].msg)
  /\ \A s \in Stations : \A i \in 1..Len(pending[s]) :
       /\ Len(pending[s][i]) = 1
       /\ pending[s][i][1].stmt = "select_max_strong"
       /\ pending[s][i][1].out = "unavailable"

\* C3 witness: the strong read failed with a timeout while a replica was
\* down, and the reply carries the timeout's text.
C3_Witness ==
  /\ IsReply("StationMax") /\ Len(sent.calls) = 1
  /\ sent.calls[1].out = "error"
  /\ sent.reply.error = "ReadTimeout"
  /\ Size(Live) < RF

\* C4: a StationMax whose strong read succeeds for a station without any
\* observation replies (-1, "No data found").
C4_EmptyStation ==
  (IsReply("StationMax") /\ sent.calls[1].out = "ok"
     /\ Written(sent.req.station) = {}) =>
    sent.reply = MkReply(-1, "", "", "No data found")

\* C4 witness: the seeded station has no observation, the other station has
\* one, and the strong read of the seeded station answers "No data found".
C4_Witness ==
  /\ IsReply("StationMax") /\ sent.req.station = SeededStation
  /\ sent.calls[1].out = "ok"
  /\ Written(SeededStation) = {} /\ Written(UnknownStation) # {}
  /\ sent.reply.error = "No data found"

\* C5: no replica holds two rows of one key; the reconciled table holds for
\* each key exactly the row of the last insert of that key; and a clean
\* StationMax reply is the tmax of one of these rows.
C5_KeyUniqueness ==
  /\ \A e \in DOMAIN reps : \A x \in e.tbl : \A y \in e.tbl :
       SameKey(x, y) => x = y
  /\ Reconcile(AllRows) = {LatestRow(k) : k \in {x \in Keys : latest[x].ts > 0}}
  /\ (IsReply("StationMax") /\ sent.reply.error = "") =>
       sent.reply.tmax \in CurrentTmax(sent.req.station)

\* C5 witness: a key was overwritten with a lower tmax (2, then -1); a
\* replica still holds the overwritten row; the clean StationMax reply is -1.
C5_Witness ==
  /\ IsReply("StationMax") /\ sent.reply = MkReply(-1, "", "", "")
  /\ \E k \in Written(sent.req.station) :
       /\ latest[k].ts = 2 /\ latest[k].tmax = -1
       /\ \E x \in AllRows : x.id = k[1] /\ x.date = k[2] /\ x.ts = 1 /\ x.tmax = 2

\* What a consistent read of the store answers: the maximum of each station
\* and the row of each station's name lookup, over the reconciled table.
View(rows) ==
  [s \in Stations |->
     [max |-> SelectMax(Reconcile(rows), s),
      name |-> StationNameReply(SelectNameOne(Reconcile(rows), s))]]

\* The (key, record) pairs held anywhere.
Held(rows) == {<<x.id, x.date, x.tmin, x.tmax>> : x \in rows}

\* A step is a RecordTemps that repeats the last insert of its key.
RepeatsLastInsert ==
  /\ sent = NoneSent /\ sent'.req.op = "RecordTemps"
  /\ LET k == <<sent'.req.station, sent'.req.date>>
     IN  /\ latest[k].ts > 0
         /\ latest[k].tmin = sent'.req.tmin
         /\ latest[k].tmax = sent'.req.tmax

\* C6: a RecordTemps that repeats the last insert of its key leaves every
\* consistent answer (StationMax and StationName over the reconciled table)
\* as it was, and leaves no record on any replica that was not held before.
C6_IdempotentWrite ==
  [][RepeatsLastInsert =>
       /\ View(AllRows)' = View(AllRows)
       /\ Held(AllRows)' \subseteq Held(AllRows)]_vars

\* C6 witness: the same insert has reached the store twice, and both copies
\* are held (by different replicas).
C6_Witness ==
  /\ IsReply("RecordTemps") /\ sent.reply.error = ""
  /\ LET k == <<sent.req.station, sent.req.date>>
     IN  /\ latest[k].ts = 2
         /\ \E x \in AllRows :
              /\ x.id = k[1] /\ x.date = k[2] /\ x.ts = 1
              /\ x.tmin = sent.req.tmin /\ x.tmax = sent.req.tmax

\* C7: RecordTemps makes one store call and replies "" exactly when the
\* insert returned, "unavailable" exactly when it was refused for
\* unavailability, and the exception's text otherwise; a reply "" means the
\* record is stored.
C7_RecordTempsReplies ==
  IsReply("RecordTemps") =>
    /\ Len(sent.calls) = 1 /\ sent.calls[1].stmt = "insert_temp"
    /\ sent.reply.error = "" <=> sent.calls[1].out = "ok"
    /\ sent.reply.error = "unavailable" <=> sent.calls[1].out = "unavailable"
    /\ sent.calls[1].out = "error" => sent.reply.error = sent.calls[1].msg
    /\ sent.reply.error = "" =>
         LatestRow(<<sent.req.station, sent.req.date>>) \in AllRows

\* C7 witness: an insert that failed with a timeout although a replica had
\* applied it; the reply carries the timeout's text.
C7_Witness ==
  /\ IsReply("RecordTemps") /\ sent.reply.error = "WriteTimeout"
  /\ sent.calls[1].out = "error"
  /\ LET k == <<sent.req.station, sent.req.date>>
     IN  latest[k].ts = 1 /\ latest[k].tmax = sent.req.tmax

\* The statements of a sequence of store calls.
Stmts(cs) == [i \in 1..Len(cs) |-> cs[i].stmt]

\* The store calls of every request, replied or still inside its handler.
OneShot ==
  /\ sent.req.op = "StationMax" =>
       Stmts(sent.calls) \in {<<"select_max_strong">>,
                              <<"select_max_strong", "select_max_available">>}
  /\ sent.req.op = "RecordTemps" => Stmts(sent.calls) = <<"insert_temp">>
  /\ \A s \in Stations : \A i \in 1..Len(pending[s]) :
       /\ Stmts(pending[s][i]) = <<"select_max_strong">>
       /\ SelectMaxOutcomes(AvailableLevel, s) # {}

\* C8: a StationMax request makes the strong read, or the strong read and
\* then one weak read, and nothing else; a RecordTemps request makes one
\* insert; a thread that is still inside StationMax has made the strong read
\* only, and, its store call returning or failing, it reaches its reply with
\* its second call.
C8_BoundedRetry ==
  /\ []OneShot
  /\ \A s \in Stations :
       (pending[s] # <<>>) ~>
         (sent.req.op = "StationMax" /\ sent.req.station = s
            /\ Len(sent.calls) = 2)

\* C8 witness: a StationMax that made both reads, the second refused too,
\* while another thread still waits for its weak read.
C8_Witness ==
  /\ sent.req.op = "StationMax" /\ Len(sent.calls) = 2
  /\ sent.calls[2].out = "unavailable"
  /\ \E s \in Stations : pending[s] # <<>>

\* The outcome of a request, from what its store calls did.
Outcome(cs) ==
  LET c == cs[Len(cs)]
  IN  IF c.out = "unavailable" THEN "unavailable"
      ELSE IF c.out = "error" THEN "failure"
      ELSE IF c.stmt = "insert_temp" THEN "success"
      ELSE IF c.val = Null THEN "no data"
      ELSE IF c.stmt = "select_max_available" THEN "degraded"
      ELSE "success"

\* The outcome a caller reads off a reply.
OutcomeRead(r) ==
  IF r.error = "" THEN "success"
  ELSE IF r.error = "fallback_to_available" THEN "degraded"
  ELSE IF r.error = "No data found" THEN "no data"
  ELSE IF r.error = "unavailable" THEN "unavailable"
  ELSE "failure"

\* C9: the reply of StationMax and of RecordTemps tells the outcome: the
\* outcome read off (tmax, error) is the outcome of the store calls.
C9_UnambiguousOutcome ==
  (IsReply("StationMax") \/ IsReply("RecordTemps")) =>
    OutcomeRead(sent.reply) = Outcome(sent.calls)

\* C9 witness: a clean StationMax reply whose value is a stored tmax of -1.
C9_Witness ==
  /\ IsReply("StationMax") /\ sent.reply = MkReply(-1, "", "", "")
  /\ CurrentTmax(sent.req.station) = {-1}

\* C10: StationName of a station that is neither seeded nor written replies
\* ("", "Station not found"); StationName of a seeded station replies its
\* name with an empty error.
C10_StationName ==
  IsReply("StationName") =>
    /\ (names[sent.req.station] = Null /\ Written(sent.req.station) = {}) =>
         sent.reply = MkReply(0, "", "", "Station not found")
    /\ names[sent.req.station] # Null =>
         sent.reply = MkReply(0, names[sent.req.station][1], "", "")

\* C10 witness: the seeded station's name is returned after an observation
\* of the other station was stored.
C10_Witness ==
  /\ IsReply("StationName") /\ sent.req.station = SeededStation
  /\ sent.reply = MkReply(0, SeededName, "", "")
  /\ Written(UnknownStation) # {}

\* C11: every StationMax reply that comes from the weak read (the strong read
\* was refused for unavailability and the weak read returned) carries the
\* error "fallback_to_available", a weak read without rows included.
C11_FallbackAlwaysFlagged ==
  (IsReply("StationMax") /\ Len(sent.calls) = 2
     /\ sent.calls[1].out = "unavailable" /\ sent.calls[2].out = "ok") =>
    sent.reply.error = "fallback_to_available"

\* A step in which a thread of StationMax(s) has its strong read refused and
\* goes on to the read at consistency ONE.
EntersFallback(s) == Len(pending'[s]) > Len(pending[s])

\* A step in which StationMax replies right after its strong read.
RepliesAfterStrong ==
  sent = NoneSent /\ sent'.req.op = "StationMax" /\ Len(sent'.calls) = 1

\* C12 as stated: with a majority of the replicas (2 of 3) reachable, the
\* strong read of StationMax is satisfied: no request goes on to the fallback
\* and no reply carries "fallback_to_available" or "unavailable".
C12_MajoritySuffices ==
  [][Size(Live) >= 2 =>
       /\ \A s \in Stations : ~EntersFallback(s)
       /\ RepliesAfterStrong =>
            sent'.reply.error \notin {"fallback_to_available", "unavailable"}]_vars

\* C12 as amended: the strong read needs all three replicas.  With the three
\* reachable it is never refused, so the reply carries neither
\* "fallback_to_available" nor "unavailable"; with fewer reachable, two
\* included, it never returns: the request goes on to the fallback or
\* replies the text of another exception.
C12_StrongNeedsAllReplicas ==
  [][/\ Size(Live) = RF =>
          /\ \A s \in Stations : ~EntersFallback(s)
          /\ RepliesAfterStrong =>
               sent'.reply.error \notin {"fallback_to_available", "unavailable"}
     /\ (Size(Live) < RF /\ RepliesAfterStrong) =>
          /\ sent'.calls[1].out = "error"
          /\ sent'.reply = MkReply(-1, "", "", sent'.calls[1].msg)]_vars

\* C12 witness: two of the three replicas are reachable, and the reply of
\* StationMax comes from the fallback read.
C12_Witness ==
  /\ IsReply("StationMax") /\ Len(sent.calls) = 2
  /\ sent.reply.error = "fallback_to_available"
  /\ Size(Live) = 2
  /\ \A s \in Stations : pending[s] = <<>>

ReplicasAgree == \A e \in DOMAIN reps : e.tbl = AllRows

\* C14: inserts of one key overlap (the service does not serialize them),
\* and under every interleaving no replica holds two rows of a key, every
\* row is the (tmin, tmax) pair of one insert and never a mixture of two,
\* the insert of each key with the latest timestamp stays held whatever is
\* written to other keys, and once no insert is in flight and the replicas
\* agree, each key holds that insert's row and no other; an acknowledged
\* insert leaves its key with a row.
C14_ConcurrentWrites ==
  /\ \A e \in DOMAIN reps : \A x \in e.tbl :
       /\ <<x.tmin, x.tmax>> \in Records
       /\ \A y \in e.tbl : SameKey(x, y) => x = y
  /\ \A k \in Keys : latest[k].ts > 0 => LatestRow(k) \in AllRows
  /\ (writing = {} /\ ReplicasAgree) =>
       AllRows = {LatestRow(k) : k \in {x \in Keys : latest[x].ts > 0}}
  /\ (IsReply("RecordTemps") /\ sent.reply.error = "") =>
       \E x \in AllRows : x.id = sent.req.station /\ x.date = sent.req.date

\* C14 witness: two inserts of one key overlapped; the one stamped first
\* arrived last, was acknowledged and lost: the replicas agree on the record
\* of the other.
C14_Witness ==
  /\ IsReply("RecordTemps") /\ sent.reply.error = ""
  /\ writing = {} /\ ReplicasAgree
  /\ LET k == <<sent.req.station, sent.req.date>>
     IN  /\ latest[k].ts = 2
         /\ latest[k].tmax # sent.req.tmax
         /\ AllRows = {LatestRow(k)}

\* C15: a failed store call is reported through the reply: whenever the
\* store call of a handler (StationSchema, StationName, RecordTemps,
\* StationMax) is refused or raises, the handler still sends a reply
\* message, with a non-empty error.
C15_FailuresReported ==
  (sent # NoneSent /\ sent.calls[Len(sent.calls)].out # "ok") =>
    /\ ~sent.raised
    /\ sent.reply.error # ""

\* C16: StationName replies an empty name only together with the error
\* "Station not found", and an empty error only together with the seeded
\* name of the station, also for a station that is not in the reference list
\* but has observations.
C16_EmptyNameMeansNotFound ==
  IsReply("StationName") =>
    /\ sent.reply.name = "" => sent.reply.error = "Station not found"
    /\ sent.reply.error = "" =>
         /\ names[sent.req.station] # Null
         /\ sent.reply.name = names[sent.req.station][1]

\* The (station, date) keys that hold an observation.
HeldKeys(rows) == {<<x.id, x.date>> : x \in rows}

\* C17: observations are never deleted: over every step of the service,
\* its start-up included, the keys that hold an observation only grow.
C17_NeverDeleted ==
  [][HeldKeys(AllRows) \subseteq HeldKeys(AllRows)']_vars

\* The rows of keys other than k.
Others(rows, k) == {x \in rows : <<x.id, x.date>> # k}

\* A step in which RecordTemps makes its insert and replies.
WriteStep == sent = NoneSent /\ sent'.req.op = "RecordTemps"

\* A step of StationMax, StationName or StationSchema.
ReadStep ==
  \/ /\ sent = NoneSent
     /\ sent'.req.op \in {"StationMax", "StationName", "StationSchema"}
  \/ \E s \in Stations : EntersFallback(s)

\* C18: a RecordTemps changes the observation of its key only: on every
\* replica the rows of the other keys are as before, a row that is new has
\* the key and the record of the request, and every station's name is as
\* before, the written station's included; StationMax, StationName and
\* StationSchema change nothing in the store.
C18_WriteFrame ==
  [][/\ WriteStep =>
          LET k == <<sent'.req.station, sent'.req.date>>
          IN  /\ {Others(e.tbl, k) : e \in DOMAIN reps'}
                   = {Others(e.tbl, k) : e \in DOMAIN reps}
              /\ \A x \in AllRows' \ AllRows :
                   /\ <<x.id, x.date>> = k
                   /\ x.tmin = sent'.req.tmin /\ x.tmax = sent'.req.tmax
              /\ \A j \in Keys \ {k} : latest'[j] = latest[j]
              /\ names' = names
     /\ ReadStep => reps' = reps /\ names' = names /\ latest' = latest]_vars

\* C18 witness: an observation is acknowledged for a second date of the
\* seeded station; the row of the first date and the station's name are
\* still there.
C18_Witness ==
  /\ IsReply("RecordTemps") /\ sent.reply.error = ""
  /\ sent.req.station = SeededStation
  /\ names[SeededStation] = Some(SeededName)
  /\ \E x \in AllRows : x.id = SeededStation /\ x.date # sent.req.date
  /\ \E x \in AllRows : x.id = SeededStation /\ x.date = sent.req.date

====
